---- MODULE Spec2Model ----
(***************************************************************************)
(* Model of SearchService (src/src/app/services/search.service.ts).        *)
(*                                                                         *)
(* A JavaScript string is a sequence of one-character strings, so that     *)
(* the URL pattern, the URL parser and the path split are computed on the  *)
(* characters as the code computes them.  The JavaScript value undefined   *)
(* is the one-element sequence <<"undefined">>, which no string equals.    *)
(***************************************************************************)
EXTENDS Integers, Sequences, FiniteSets, TLC

VARIABLES
  searchActivated,  \* the public field of the service
  nextInv,          \* the number of the next start() invocation
  term,             \* term[i]: the searchTerm of invocation i
  pc,               \* pc[i]: where invocation i stands
  idType,           \* idType[i]: the ESteamIDTypes branch getSteamID awaits in
  response,         \* response[i]: what the await in getSteamID yielded
  steamID,          \* steamID[i]: how the getSteamID promise settled
  flagRead,         \* flagRead[i]: how if (this.searchActivated) went in the handler
  ownedGames,       \* ownedGames[i]: how the getOwnedGames promise settled
  log               \* log[i]: the events, requests and settlement of i, in order

vars == <<searchActivated, nextInv, term, pc, idType, response, steamID,
          flagRead, ownedGames, log>>

(***************************************************************************)
(* Bounds.                                                                 *)
(***************************************************************************)
\* number of start() invocations over the life of the service
MaxStarts == 2

Invocations == 1..MaxStarts

\* number of start() invocations in the runs checked for termination
MaxAnswered == 1

(***************************************************************************)
(* Values.                                                                 *)
(***************************************************************************)
undefined == <<"undefined">>

Lower == {"a","b","c","d","e","f","g","h","i","j","k","l","m",
          "n","o","p","q","r","s","t","u","v","w","x","y","z"}
Upper == {"A","B","C","D","E","F","G","H","I","J","K","L","M",
          "N","O","P","Q","R","S","T","U","V","W","X","Y","Z"}
Digit == {"0","1","2","3","4","5","6","7","8","9"}

\* \w of the regular expression, for the \b assertion
WordChar == Lower \cup Upper \cup Digit \cup {"_"}

\* [-a-zA-Z0-9@:%._\+~#=]
DomainChar == Lower \cup Upper \cup Digit
                \cup {"-","@",":","%",".","_","+","~","#","="}

\* the repetition limits of the pattern: {2,256} and {2,6}
DomainMin == 2
DomainMax == 256
TldMin == 2
TldMax == 6

\* the strings the inputs are built from
HTTPS  == <<"h","t","t","p","s",":","/","/">>
HTTP   == <<"h","t","t","p",":","/","/">>
WWW    == <<"w","w","w",".">>
STEAM  == <<"s","t","e","a","m","c","o","m","m","u","n","i","t","y">>
COM    == <<".","c","o","m">>
EXAMPLE  == <<"e","x","a","m","p","l","e">>
SLASH  == <<"/">>
ID     == <<"i","d">>
PROFILES == <<"p","r","o","f","i","l","e","s">>
GROUPS == <<"g","r","o","u","p","s">>
GABEN  == <<"g","a","b","e","n">>
ID64   == <<"7","6","5">>
ID64b  == <<"7","6","6">>

\* the search terms start() is called with
Terms ==
  { <<>>,
    ID64,
    GABEN,
    HTTPS \o WWW \o STEAM \o COM \o SLASH \o ID \o SLASH \o GABEN \o SLASH,
    STEAM \o COM \o SLASH \o ID \o SLASH \o GABEN,
    HTTP \o STEAM \o COM \o SLASH \o PROFILES \o SLASH \o ID64,
    WWW \o STEAM \o COM \o SLASH \o PROFILES \o SLASH \o ID64,
    HTTPS \o EXAMPLE \o COM \o SLASH \o ID \o SLASH \o GABEN,
    HTTPS \o STEAM \o COM \o SLASH \o GROUPS \o SLASH \o GABEN }

(***************************************************************************)
(* Strings.                                                                *)
(***************************************************************************)
\* String.prototype.includes
Includes(s, sub) ==
  \E i \in 1..(Len(s) - Len(sub) + 1) : SubSeq(s, i, i + Len(sub) - 1) = sub

\* String.prototype.indexOf, 0 when the character is absent
IndexOf(s, ch) ==
  IF \E i \in 1..Len(s) : s[i] = ch
  THEN CHOOSE i \in 1..Len(s) : s[i] = ch /\ \A j \in 1..(i - 1) : s[j] # ch
  ELSE 0

\* String.prototype.split on one character
RECURSIVE Split(_, _)
Split(s, ch) ==
  IF IndexOf(s, ch) = 0
  THEN <<s>>
  ELSE <<SubSeq(s, 1, IndexOf(s, ch) - 1)>>
         \o Split(SubSeq(s, IndexOf(s, ch) + 1, Len(s)), ch)

\* Array.prototype.filter((str) => str.length > 0)
NonEmptySegments(segs) == SelectSeq(segs, LAMBDA str : Len(str) > 0)

\* array[k] for a zero-based k, undefined past the end
At(arr, k) == IF k + 1 \in 1..Len(arr) THEN arr[k + 1] ELSE undefined

\* Validator.isNumeric: the term is entirely decimal digits
isNumeric(s) == Len(s) > 0 /\ \A i \in 1..Len(s) : s[i] \in Digit

\* searchTerm.match(regex) !== null for
\* /(http(s)?:\/\/.)?(www\.)?[-a-zA-Z0-9@:%._\+~#=]{2,256}\.[a-z]{2,6}\b([-a-zA-Z0-9@:%_\+.~#?&//=]*)/g
\* The two leading groups are optional and the trailing group may be empty,
\* and match() searches at every position, so a match exists exactly when
\* some substring is {2,256} domain characters, a dot, {2,6} lowercase
\* letters and then a word boundary.
MatchesUrlRegex(s) ==
  \E i \in 1..Len(s) :
    \E n \in DomainMin..DomainMax :
      \E k \in TldMin..TldMax :
        /\ i + n + k <= Len(s)
        /\ \A j \in i..(i + n - 1) : s[j] \in DomainChar
        /\ s[i + n] = "."
        /\ \A j \in (i + n + 1)..(i + n + k) : s[j] \in Lower
        /\ \/ i + n + k = Len(s)
           \/ s[i + n + k + 1] \notin WordChar

(***************************************************************************)
(* new URL(searchTerm) without a base.  A term with no scheme throws       *)
(* TypeError.  For http and https the slashes after the colon are skipped, *)
(* the host runs to the next slash and the rest is the path.  The terms    *)
(* carry no userinfo, port, query or fragment.                             *)
(***************************************************************************)
SchemeChar == Lower \cup Upper \cup Digit \cup {"+", "-", "."}

\* position of the colon that ends the scheme, 0 when there is no scheme
SchemeEnd(s) ==
  LET c == IndexOf(s, ":")
  IN  IF /\ c > 1
         /\ s[1] \in Lower \cup Upper
         /\ \A j \in 2..(c - 1) : s[j] \in SchemeChar
      THEN c ELSE 0

RECURSIVE SkipSlashes(_)
SkipSlashes(s) ==
  IF Len(s) > 0 /\ s[1] = "/" THEN SkipSlashes(Tail(s)) ELSE s

ParseURL(s) ==
  LET c      == SchemeEnd(s)
      scheme == SubSeq(s, 1, c - 1)
      rest   == SkipSlashes(SubSeq(s, c + 1, Len(s)))
      h      == IndexOf(rest, "/")
      host   == IF h = 0 THEN rest ELSE SubSeq(rest, 1, h - 1)
      path   == IF h = 0 THEN SLASH ELSE SubSeq(rest, h, Len(rest))
  IN  IF c = 0 THEN [ok |-> FALSE]
      ELSE IF scheme \in {<<"h","t","t","p">>, <<"h","t","t","p","s">>}
      THEN IF Len(host) = 0 THEN [ok |-> FALSE]
           ELSE [ok |-> TRUE, hostname |-> host, pathname |-> path]
      ELSE [ok |-> TRUE, hostname |-> <<>>,
            pathname |-> SubSeq(s, c + 1, Len(s))]

(***************************************************************************)
(* Enumerations, errors and remote responses.                              *)
(***************************************************************************)
\* if (steamid !== undefined) in place of if (steamid)
Truthy_EmptyOk(v) == v # undefined

\* if (steamid): a string is truthy unless it is undefined or empty
Truthy(v) == v # undefined /\ v # <<>>

\* if (this.searchActivated !== false): an unset flag counts as set
Activated_NotFalse(flag) == flag # "false"

\* if (this.searchActivated): undefined and false are both falsy
Activated(flag) == flag = "true"

TypedErrors == {"InvalidSteamID64Error", "InvalidNicknameError",
                "InvalidProfileURLError", "InvalidPermalinkError"}

\* an error object: its class and the term quoted in its message
Error(name, about) == [name |-> name, message |-> about]

\* what ISteamUser/ResolveVanityURL can answer
VanityResponses ==
  { [kind |-> "ok", steamid |-> s] : s \in {ID64b, <<>>, undefined} }
    \cup { [kind |-> "malformed"], [kind |-> "error"] }

\* what ISteamUser/GetPlayerSummaries can answer
SummariesResponses ==
  { [kind |-> "ok", players |-> p] : p \in {<<>>, <<"player">>} }
    \cup { [kind |-> "malformed"], [kind |-> "error"] }

\* what IPlayerService/GetOwnedGames can answer
GAMES == <<"games">>
OwnedGamesResponses == { [kind |-> "ok", games |-> GAMES], [kind |-> "error"] }

(***************************************************************************)
(* Observable effects, in the order an invocation produces them.           *)
(***************************************************************************)
Emit(state, type, details) ==
  [op |-> "emit", state |-> state, type |-> type, details |-> details]

Get(api, key) == [op |-> "get", api |-> api, key |-> key]

Settle(how) == [op |-> how]

(***************************************************************************)
(* getSteamID: the part up to the first await, and the part after it.      *)
(***************************************************************************)
Return(v) == [kind |-> "return", value |-> v]
Throw(e) == [kind |-> "throw", error |-> e]
Await(fn, input, type) ==
  [kind |-> "await", fn |-> fn, input |-> input, type |-> type]

\* url.pathname.split('/').filter(...)
Route(t) == NonEmptySegments(Split(ParseURL(t).pathname, "/"))

getSteamIDBegin(searchTerm) ==
  IF Len(searchTerm) > 0
  THEN IF isNumeric(searchTerm)
       THEN Await("isValidID", searchTerm, "ID64")
       ELSE IF MatchesUrlRegex(searchTerm)
            THEN IF ~ParseURL(searchTerm).ok
                 THEN Throw(Error("TypeError", undefined))
                 ELSE IF Includes(ParseURL(searchTerm).hostname, STEAM)
                      THEN IF At(Route(searchTerm), 0) = ID
                           THEN Await("getSteamIDFromName",
                                      At(Route(searchTerm), 1), "ProfileURL")
                           ELSE IF At(Route(searchTerm), 0) = PROFILES
                                THEN Await("isValidID",
                                           At(Route(searchTerm), 1),
                                           "ProfilePermalink")
                                ELSE Return(undefined)
                      ELSE Return(undefined)
            ELSE Await("getSteamIDFromName", searchTerm, "Nickname")
  ELSE Return(undefined)

\* the synchronous part is a function of the term alone
begin == [t \in Terms |-> getSteamIDBegin(t)]

\* validity.response.players.length >= 0 in place of > 0
HasPlayers_Always(validity) == Len(validity.players) >= 0

\* validity.response.players.length > 0
HasPlayers(validity) == Len(validity.players) > 0

getSteamIDResume(searchTerm, type, res) ==
  IF res.kind = "error" THEN Throw(Error("HttpErrorResponse", undefined))
  ELSE IF res.kind = "malformed" THEN Throw(Error("TypeError", undefined))
  ELSE IF type = "ID64"
       THEN IF HasPlayers(res)
            THEN Return(searchTerm)
            ELSE Throw(Error("InvalidSteamID64Error", searchTerm))
  ELSE IF type = "ProfileURL"
       THEN IF Truthy(res.steamid)
            THEN Return(res.steamid)
            ELSE Throw(Error("InvalidProfileURLError", searchTerm))
  ELSE IF type = "ProfilePermalink"
       THEN IF HasPlayers(res)
            THEN Return(At(Route(searchTerm), 1))
            ELSE Throw(Error("InvalidPermalinkError", searchTerm))
  ELSE IF Truthy(res.steamid)
       THEN Return(res.steamid)
       ELSE Throw(Error("InvalidNicknameError", searchTerm))

\* getSteamIDFromName and isValidID: the Loading event, then the request
getSteamIDFromName(input, type) ==
  << Emit("Loading", "SteamIDRetrieval",
          [meta |-> [input |-> input, type |-> type]]),
     Get("ResolveVanityURL", input) >>

\* the Loading event of getSteamIDFromName pasted in unchanged
isValidID_CopiedType(id, type) ==
  << Emit("Loading", "SteamIDRetrieval",
          [meta |-> [input |-> id, type |-> type]]),
     Get("GetPlayerSummaries", id) >>

isValidID(id, type) ==
  << Emit("Loading", "SteamIDValidation",
          [meta |-> [input |-> id, type |-> type]]),
     Get("GetPlayerSummaries", id) >>

getOwnedGames(steamId) == << Get("GetOwnedGames", steamId) >>

(***************************************************************************)
(* start: the handlers chained on getSteamID and on getOwnedGames.         *)
(***************************************************************************)
\* an inactive search treated as cancelled: no request, start rejects
OnSteamID_CancelsWhenInactive(searchTerm, result, activated) ==
  IF Activated(activated)
  THEN << Emit("Success", "SteamIDRetrieval",
               [result |-> result, meta |-> [input |-> searchTerm]]) >>
         \o getOwnedGames(result)
  ELSE << Settle("reject") >>

\* getOwnedGames called a second time
OnSteamID_FetchTwice(searchTerm, result, activated) ==
  (IF Activated(activated)
   THEN << Emit("Success", "SteamIDRetrieval",
                [result |-> result, meta |-> [input |-> searchTerm]]) >>
   ELSE << >>)
    \o getOwnedGames(result) \o getOwnedGames(result)

\* the request sent before the Success event is emitted
OnSteamID_FetchFirst(searchTerm, result, activated) ==
  getOwnedGames(result)
    \o (IF Activated(activated)
        THEN << Emit("Success", "SteamIDRetrieval",
                     [result |-> result, meta |-> [input |-> searchTerm]]) >>
        ELSE << >>)

\* the Success event emitted without testing the flag
OnSteamID_Ungated(searchTerm, result, activated) ==
  << Emit("Success", "SteamIDRetrieval",
          [result |-> result, meta |-> [input |-> searchTerm]]) >>
    \o getOwnedGames(result)

\* .then((result) => ...) of getSteamID
OnSteamID(searchTerm, result, activated) ==
  (IF Activated(activated)
   THEN << Emit("Success", "SteamIDRetrieval",
                [result |-> result, meta |-> [input |-> searchTerm]]) >>
   ELSE << >>)
    \o getOwnedGames(result)

\* the Failure event emitted for the typed errors only
OnSteamIDError_TypedOnly(searchTerm, error, activated) ==
  (IF Activated(activated) /\ error.name \in TypedErrors
   THEN << Emit("Failure", "SteamIDRetrieval",
                [error |-> error, meta |-> [input |-> searchTerm]]) >>
   ELSE << >>)
    \o << Settle("reject") >>

\* the Failure event emitted without testing the flag
OnSteamIDError_Ungated(searchTerm, error, activated) ==
  << Emit("Failure", "SteamIDRetrieval",
          [error |-> error, meta |-> [input |-> searchTerm]]),
     Settle("reject") >>

\* .catch((error) => ...) of getSteamID
OnSteamIDError(searchTerm, error, activated) ==
  (IF Activated(activated)
   THEN << Emit("Failure", "SteamIDRetrieval",
                [error |-> error, meta |-> [input |-> searchTerm]]) >>
   ELSE << >>)
    \o << Settle("reject") >>

\* .then((games) => ...) of getOwnedGames
OnGames(games) ==
  << Emit("Success", "SteamLibraryFetch", [result |-> games]),
     Settle("resolve") >>

\* reject() without the Failure event
OnGamesError_Silent(error) == << Settle("reject") >>

\* .catch((error) => ...) of getOwnedGames
OnGamesError(error) ==
  << Emit("Failure", "SteamLibraryFetch", [error |-> error]),
     Settle("reject") >>

\* a rejected getSteamID handled as if it had resolved with nothing
AfterSteamID_ErrorFallsThrough(searchTerm, outcome, activated) ==
  IF outcome.kind = "return"
  THEN OnSteamID(searchTerm, outcome.value, activated)
  ELSE OnSteamID(searchTerm, undefined, activated)

\* getSteamID(searchTerm).then(...).catch(...): the handler that runs
AfterSteamID(searchTerm, outcome, activated) ==
  IF outcome.kind = "return"
  THEN OnSteamID(searchTerm, outcome.value, activated)
  ELSE OnSteamIDError(searchTerm, outcome.error, activated)

\* a handler that ends without calling reject(): the promise start
\* returned stays pending for ever
PcAfter_RejectForgotten(effects) ==
  IF effects[Len(effects)].op = "resolve" THEN "resolved"
  ELSE IF effects[Len(effects)].op = "reject" THEN "pending"
  ELSE "getOwnedGames"

\* where start stands after the effects: settled by resolve() or reject(),
\* or else waiting for the request it has just sent
PcAfter(effects) ==
  IF effects[Len(effects)].op = "resolve" THEN "resolved"
  ELSE IF effects[Len(effects)].op = "reject" THEN "rejected"
  ELSE "getOwnedGames"

(***************************************************************************)
(* The state machine.                                                      *)
(***************************************************************************)
Pending == [kind |-> "pending"]

\* the branch if (this.searchActivated) takes
Branch(flag) == IF Activated(flag) THEN "true" ELSE "false"

Init ==
  /\ searchActivated = "undefined"
  /\ nextInv = 1
  /\ term = [i \in Invocations |-> undefined]
  /\ pc = [i \in Invocations |-> "idle"]
  /\ idType = [i \in Invocations |-> "none"]
  /\ response = [i \in Invocations |-> [kind |-> "none"]]
  /\ steamID = [i \in Invocations |-> Pending]
  /\ flagRead = [i \in Invocations |-> "unread"]
  /\ ownedGames = [i \in Invocations |-> Pending]
  /\ log = [i \in Invocations |-> << >>]

\* start(searchTerm): runs getSteamID to its first await; a getSteamID that
\* settles without awaiting has its handler run before any other task
Start(searchTerm) ==
  /\ nextInv \in Invocations
  /\ LET i == nextInv
         b == begin[searchTerm]
         after == AfterSteamID(searchTerm, b, searchActivated)
     IN  /\ term' = [term EXCEPT ![i] = searchTerm]
         /\ IF b.kind = "await"
            THEN /\ pc' = [pc EXCEPT ![i] = "getSteamID"]
                 /\ idType' = [idType EXCEPT ![i] = b.type]
                 /\ log' = [log EXCEPT ![i] =
                              IF b.fn = "isValidID"
                              THEN isValidID(b.input, b.type)
                              ELSE getSteamIDFromName(b.input, b.type)]
                 /\ UNCHANGED <<steamID, flagRead>>
            ELSE /\ pc' = [pc EXCEPT ![i] = PcAfter(after)]
                 /\ idType' = idType
                 /\ log' = [log EXCEPT ![i] = after]
                 /\ steamID' = [steamID EXCEPT ![i] = b]
                 /\ flagRead' = [flagRead EXCEPT ![i] = Branch(searchActivated)]
  /\ nextInv' = nextInv + 1
  /\ UNCHANGED <<searchActivated, response, ownedGames>>

\* the handler reading the term from a field of the service, which the
\* latest start() has overwritten, in place of its own searchTerm
SteamIDResponse_SharedTerm(i, res) ==
  /\ pc[i] = "getSteamID"
  /\ res \in (IF idType[i] \in {"ID64", "ProfilePermalink"}
              THEN SummariesResponses ELSE VanityResponses)
  /\ LET outcome == getSteamIDResume(term[i], idType[i], res)
         after == AfterSteamID(term[nextInv - 1], outcome, searchActivated)
     IN  /\ response' = [response EXCEPT ![i] = res]
         /\ steamID' = [steamID EXCEPT ![i] = outcome]
         /\ flagRead' = [flagRead EXCEPT ![i] = Branch(searchActivated)]
         /\ pc' = [pc EXCEPT ![i] = PcAfter(after)]
         /\ log' = [log EXCEPT ![i] = @ \o after]
  /\ UNCHANGED <<searchActivated, nextInv, term, idType, ownedGames>>

\* the identity request of invocation i completes with res: getSteamID
\* resumes, settles, and the handler start chained on it runs
SteamIDResponse(i, res) ==
  /\ pc[i] = "getSteamID"
  /\ res \in (IF idType[i] \in {"ID64", "ProfilePermalink"}
              THEN SummariesResponses ELSE VanityResponses)
  /\ LET outcome == getSteamIDResume(term[i], idType[i], res)
         after == AfterSteamID(term[i], outcome, searchActivated)
     IN  /\ response' = [response EXCEPT ![i] = res]
         /\ steamID' = [steamID EXCEPT ![i] = outcome]
         /\ flagRead' = [flagRead EXCEPT ![i] = Branch(searchActivated)]
         /\ pc' = [pc EXCEPT ![i] = PcAfter(after)]
         /\ log' = [log EXCEPT ![i] = @ \o after]
  /\ UNCHANGED <<searchActivated, nextInv, term, idType, ownedGames>>

\* the owned-games request of invocation i completes with res
OwnedGamesResponse(i, res) ==
  /\ pc[i] = "getOwnedGames"
  /\ res \in OwnedGamesResponses
  /\ LET outcome == IF res.kind = "ok"
                    THEN Return(res.games)
                    ELSE Throw(Error("HttpErrorResponse", undefined))
         after == IF outcome.kind = "return"
                  THEN OnGames(outcome.value)
                  ELSE OnGamesError(outcome.error)
     IN  /\ ownedGames' = [ownedGames EXCEPT ![i] = outcome]
         /\ pc' = [pc EXCEPT ![i] = PcAfter(after)]
         /\ log' = [log EXCEPT ![i] = @ \o after]
  /\ UNCHANGED <<searchActivated, nextInv, term, idType, response, steamID,
                 flagRead>>

\* the collaborator that owns the flag assigns it
SetSearchActivated(value) ==
  /\ value \in {"true", "false"}
  /\ searchActivated # value
  /\ searchActivated' = value
  /\ UNCHANGED <<nextInv, term, pc, idType, response, steamID, flagRead,
                 ownedGames, log>>

Next ==
  \/ \E t \in Terms : Start(t)
  \/ \E i \in Invocations : \E res \in VanityResponses \cup SummariesResponses :
       SteamIDResponse(i, res)
  \/ \E i \in Invocations : \E res \in OwnedGamesResponses :
       OwnedGamesResponse(i, res)
  \/ \E value \in {"true", "false"} : SetSearchActivated(value)

Spec == Init /\ [][Next]_vars

\* the runs in which every request that was sent is answered, with success
\* or with failure; they are explored for MaxAnswered invocations of start
StartAnswered(searchTerm) == nextInv <= MaxAnswered /\ Start(searchTerm)

NextAnswered ==
  \/ \E t \in Terms : StartAnswered(t)
  \/ \E i \in Invocations : \E res \in VanityResponses \cup SummariesResponses :
       SteamIDResponse(i, res)
  \/ \E i \in Invocations : \E res \in OwnedGamesResponses :
       OwnedGamesResponse(i, res)
  \/ \E value \in {"true", "false"} : SetSearchActivated(value)

FairSpec ==
  /\ Init /\ [][NextAnswered]_vars
  /\ \A i \in Invocations :
       /\ WF_vars(\E res \in VanityResponses \cup SummariesResponses :
                    SteamIDResponse(i, res))
       /\ WF_vars(\E res \in OwnedGamesResponses : OwnedGamesResponse(i, res))

(***************************************************************************)
(* Reading the log of an invocation.                                       *)
(***************************************************************************)
\* the events invocation i emitted with one of the states and the type
EmitsOf(i, states, type) ==
  SelectSeq(log[i], LAMBDA e : e.op = "emit" /\ e.state \in states
                                 /\ e.type = type)

\* the requests invocation i sent to the api
GetsOf(i, api) == SelectSeq(log[i], LAMBDA e : e.op = "get" /\ e.api = api)

\* all events of invocation i, in order
Emits(i) == SelectSeq(log[i], LAMBDA e : e.op = "emit")

AllStates == {"Loading", "Success", "Failure"}

TypedFailure(i) ==
  steamID[i].kind = "throw" /\ steamID[i].error.name \in TypedErrors

(***************************************************************************)
(* C1. When getSteamID fails with one of the four typed errors, start      *)
(* rejects, sends no GetOwnedGames request and emits no SteamLibraryFetch  *)
(* event; and if the handler found the flag true it has emitted exactly    *)
(* one Failure event of type SteamIDRetrieval, carrying that error and     *)
(* meta.input = the search term, before the rejection.                     *)
(***************************************************************************)
C1_TypedErrorRejects ==
  \A i \in Invocations :
    TypedFailure(i) =>
      /\ pc[i] = "rejected"
      /\ log[i][Len(log[i])] = Settle("reject")
      /\ GetsOf(i, "GetOwnedGames") = << >>
      /\ EmitsOf(i, AllStates, "SteamLibraryFetch") = << >>
      /\ flagRead[i] = "true" =>
           /\ EmitsOf(i, {"Failure"}, "SteamIDRetrieval") =
                << Emit("Failure", "SteamIDRetrieval",
                        [error |-> steamID[i].error,
                         meta |-> [input |-> term[i]]]) >>
           /\ log[i][Len(log[i]) - 1].op = "emit"
           /\ log[i][Len(log[i]) - 1].state = "Failure"

C1_Witness ==
  \E i \in Invocations :
    /\ TypedFailure(i)
    /\ steamID[i].error.name = "InvalidProfileURLError"
    /\ flagRead[i] = "true"
    /\ pc[i] = "rejected"

(***************************************************************************)
(* C2. When the handler finds the flag not true, the invocation emits no   *)
(* Success and no Failure event of type SteamIDRetrieval; and whenever     *)
(* getSteamID succeeded, the GetOwnedGames request is still sent, and      *)
(* once it completes exactly one SteamLibraryFetch event has been emitted. *)
(***************************************************************************)
C2_InactiveSuppressesIdentityEvents ==
  \A i \in Invocations :
    flagRead[i] = "false" =>
      /\ EmitsOf(i, {"Success", "Failure"}, "SteamIDRetrieval") = << >>
      /\ steamID[i].kind = "return" =>
           /\ Len(GetsOf(i, "GetOwnedGames")) = 1
           /\ pc[i] = "getOwnedGames" =>
                EmitsOf(i, AllStates, "SteamLibraryFetch") = << >>
           /\ pc[i] \in {"resolved", "rejected"} =>
                /\ Len(EmitsOf(i, AllStates, "SteamLibraryFetch")) = 1
                /\ EmitsOf(i, {"Loading"}, "SteamLibraryFetch") = << >>

C2_Witness ==
  \E i \in Invocations :
    /\ flagRead[i] = "false"
    /\ steamID[i].kind = "return"
    /\ steamID[i].value # undefined
    /\ pc[i] = "resolved"
    /\ \E j \in Invocations : flagRead[j] = "false" /\ TypedFailure(j)

(***************************************************************************)
(* C3. When getSteamID yields a CanonicalID and the fetch succeeds, the    *)
(* invocation's log is exactly: one Loading event of the identity stage,   *)
(* the identity request, then (only if the flag was found true) one        *)
(* Success event of type SteamIDRetrieval with result = the CanonicalID    *)
(* and meta.input = the term, then the GetOwnedGames request keyed by the  *)
(* CanonicalID, then one Success event of type SteamLibraryFetch carrying  *)
(* the payload, and only then the resolution.                              *)
(***************************************************************************)
C3_SuccessOrder ==
  \A i \in Invocations :
    ( /\ pc[i] = "resolved"
      /\ steamID[i].kind = "return"
      /\ steamID[i].value # undefined ) =>
      /\ Len(log[i]) >= 5
      /\ log[i][1].op = "emit"
      /\ log[i][1].state = "Loading"
      /\ log[i][1].type \in {"SteamIDRetrieval", "SteamIDValidation"}
      /\ log[i][2].op = "get"
      /\ log[i][2].api \in {"ResolveVanityURL", "GetPlayerSummaries"}
      /\ SubSeq(log[i], 3, Len(log[i])) =
           (IF flagRead[i] = "true"
            THEN << Emit("Success", "SteamIDRetrieval",
                         [result |-> steamID[i].value,
                          meta |-> [input |-> term[i]]]) >>
            ELSE << >>)
             \o << Get("GetOwnedGames", steamID[i].value),
                   Emit("Success", "SteamLibraryFetch",
                        [result |-> ownedGames[i].value]),
                   Settle("resolve") >>
      /\ ownedGames[i] = Return(GAMES)

C3_Witness ==
  \E i \in Invocations :
    /\ pc[i] = "resolved"
    /\ steamID[i].kind = "return"
    /\ steamID[i].value # undefined
    /\ flagRead[i] = "true"
    /\ Len(log[i]) = 6

(***************************************************************************)
(* C4. For start("") no event of any state or type is emitted, no request  *)
(* is sent, and start settles successfully.                                *)
(***************************************************************************)
C4_EmptyTermSilent ==
  \A i \in Invocations :
    term[i] = << >> =>
      /\ Emits(i) = << >>
      /\ \A k \in 1..Len(log[i]) : log[i][k].op # "get"
      /\ pc[i] = "resolved"

(***************************************************************************)
(* C5. A GetOwnedGames request is sent only after getSteamID has produced  *)
(* a non-empty CanonicalID through one of the four resolution paths; a     *)
(* getSteamID that completes without one never leads to the request.       *)
(***************************************************************************)
C5_FetchOnlyWithCanonicalID ==
  \A i \in Invocations :
    GetsOf(i, "GetOwnedGames") # << >> =>
      /\ steamID[i].kind = "return"
      /\ Truthy(steamID[i].value)
      /\ idType[i] \in {"ID64", "ProfileURL", "ProfilePermalink", "Nickname"}

(***************************************************************************)
(* The input shapes the claims on URLs speak of: the community domain,     *)
(* scheme optional, www. optional, then /id/<name> or /profiles/<id>.      *)
(***************************************************************************)
Schemes == { << >>, HTTP, HTTPS }

IdUrls ==
  { [term |-> p \o w \o STEAM \o COM \o SLASH \o ID \o SLASH \o n \o e,
     name |-> n] :
      p \in Schemes, w \in { << >>, WWW }, n \in {GABEN},
      e \in { << >>, SLASH } }

ProfileUrls ==
  { [term |-> p \o w \o STEAM \o COM \o SLASH \o PROFILES \o SLASH \o n \o e,
     id |-> n] :
      p \in Schemes, w \in { << >>, WWW }, n \in {ID64},
      e \in { << >>, SLASH } }

\* the terms the URL pattern accepts
UrlShaped == { t \in Terms : MatchesUrlRegex(t) }

\* the responses that carry the field the branch reads
HasSteamid(r) == r.kind = "ok" /\ "steamid" \in DOMAIN r
HasPlayerList(r) == r.kind = "ok" /\ "players" \in DOMAIN r

(***************************************************************************)
(* C6. For every input community-domain/id/<name> that the URL pattern     *)
(* accepts (scheme optional, www. optional): exactly one ResolveVanityURL  *)
(* request is sent, for <name>; a non-empty steamid in the answer is the   *)
(* CanonicalID, and an answer without steamid fails with                   *)
(* InvalidProfileURLError.                                                 *)
(***************************************************************************)
C6_IdUrlResolves ==
  \A i \in Invocations : \A u \in IdUrls :
    (term[i] = u.term /\ u.term \in UrlShaped) =>
      /\ GetsOf(i, "ResolveVanityURL") = << Get("ResolveVanityURL", u.name) >>
      /\ GetsOf(i, "GetPlayerSummaries") = << >>
      /\ (HasSteamid(response[i]) /\ Truthy(response[i].steamid)) =>
           steamID[i] = Return(response[i].steamid)
      /\ (HasSteamid(response[i]) /\ ~Truthy(response[i].steamid)) =>
           steamID[i] = Throw(Error("InvalidProfileURLError", term[i]))

(***************************************************************************)
(* C7. For every purely numeric input: exactly one GetPlayerSummaries      *)
(* request is sent, keyed by the input; if the player list of the answer   *)
(* is non-empty the CanonicalID is the input unchanged, otherwise          *)
(* getSteamID fails with InvalidSteamID64Error.                            *)
(***************************************************************************)
NumericTerms ==
  { t \in Terms : Len(t) > 0 /\ \A k \in 1..Len(t) : t[k] \in Digit }

C7_NumericValidated ==
  \A i \in Invocations :
    term[i] \in NumericTerms =>
      /\ GetsOf(i, "GetPlayerSummaries") =
           << Get("GetPlayerSummaries", term[i]) >>
      /\ GetsOf(i, "ResolveVanityURL") = << >>
      /\ (HasPlayerList(response[i]) /\ response[i].players # << >>) =>
           steamID[i] = Return(term[i])
      /\ (HasPlayerList(response[i]) /\ response[i].players = << >>) =>
           steamID[i] = Throw(Error("InvalidSteamID64Error", term[i]))

C7_Witness ==
  \E i, j \in Invocations :
    /\ term[i] \in NumericTerms
    /\ steamID[i] = Return(term[i])
    /\ term[j] \in NumericTerms
    /\ steamID[j].kind = "throw"
    /\ steamID[j].error.name = "InvalidSteamID64Error"

(***************************************************************************)
(* C8. For every input community-domain/profiles/<id>: exactly one         *)
(* GetPlayerSummaries request is sent, keyed by <id>; if the player list   *)
(* of the answer is non-empty the CanonicalID is <id>, otherwise           *)
(* getSteamID fails with InvalidPermalinkError.                            *)
(***************************************************************************)
C8_ProfileUrlValidated ==
  \A i \in Invocations : \A u \in ProfileUrls :
    term[i] = u.term =>
      /\ GetsOf(i, "GetPlayerSummaries") =
           << Get("GetPlayerSummaries", u.id) >>
      /\ GetsOf(i, "ResolveVanityURL") = << >>
      /\ (HasPlayerList(response[i]) /\ response[i].players # << >>) =>
           steamID[i] = Return(u.id)
      /\ (HasPlayerList(response[i]) /\ response[i].players = << >>) =>
           steamID[i] = Throw(Error("InvalidPermalinkError", term[i]))

(***************************************************************************)
(* C9. For every non-empty input that is neither numeric nor accepted by   *)
(* the URL pattern: exactly one ResolveVanityURL request is sent, with the *)
(* term as it is; a non-empty steamid in the answer is the CanonicalID,    *)
(* and an empty or missing steamid fails with InvalidNicknameError.        *)
(***************************************************************************)
NicknameTerms ==
  { t \in Terms : Len(t) > 0 /\ t \notin NumericTerms /\ t \notin UrlShaped }

C9_NicknameResolved ==
  \A i \in Invocations :
    term[i] \in NicknameTerms =>
      /\ GetsOf(i, "ResolveVanityURL") = << Get("ResolveVanityURL", term[i]) >>
      /\ GetsOf(i, "GetPlayerSummaries") = << >>
      /\ (HasSteamid(response[i]) /\ response[i].steamid \notin {<< >>, undefined})
           => steamID[i] = Return(response[i].steamid)
      /\ (HasSteamid(response[i]) /\ response[i].steamid \in {<< >>, undefined})
           => steamID[i] = Throw(Error("InvalidNicknameError", term[i]))

C9_Witness ==
  \E i, j \in Invocations :
    /\ term[i] \in NicknameTerms
    /\ steamID[i].kind = "return"
    /\ steamID[i].value # term[i]
    /\ term[j] \in NicknameTerms
    /\ response[j] = [kind |-> "ok", steamid |-> << >>]
    /\ steamID[j].kind = "throw"

(***************************************************************************)
(* C10. For every GetOwnedGames request sent, whatever the flag: if it     *)
(* succeeds, exactly one Success event of type SteamLibraryFetch carrying  *)
(* the payload is emitted and then start resolves; if it fails, exactly    *)
(* one Failure event of type SteamLibraryFetch carrying the error is       *)
(* emitted and then start rejects; start resolves if and only if the       *)
(* request succeeded.                                                      *)
(***************************************************************************)
LastTwo(i) == SubSeq(log[i], Len(log[i]) - 1, Len(log[i]))

C10_FetchOutcomeReported ==
  \A i \in Invocations :
    /\ GetsOf(i, "GetOwnedGames") # << >> =>
         /\ ownedGames[i] = Pending =>
              /\ EmitsOf(i, AllStates, "SteamLibraryFetch") = << >>
              /\ pc[i] = "getOwnedGames"
         /\ ownedGames[i].kind = "return" =>
              /\ EmitsOf(i, AllStates, "SteamLibraryFetch") =
                   << Emit("Success", "SteamLibraryFetch",
                           [result |-> ownedGames[i].value]) >>
              /\ LastTwo(i) =
                   << Emit("Success", "SteamLibraryFetch",
                           [result |-> ownedGames[i].value]),
                      Settle("resolve") >>
         /\ ownedGames[i].kind = "throw" =>
              /\ EmitsOf(i, AllStates, "SteamLibraryFetch") =
                   << Emit("Failure", "SteamLibraryFetch",
                           [error |-> ownedGames[i].error]) >>
              /\ LastTwo(i) =
                   << Emit("Failure", "SteamLibraryFetch",
                           [error |-> ownedGames[i].error]),
                      Settle("reject") >>
    /\ pc[i] = "resolved" <=> ownedGames[i].kind = "return"
    /\ ownedGames[i].kind = "throw" => pc[i] = "rejected"

C10_Witness ==
  \E i, j \in Invocations :
    /\ ownedGames[i].kind = "return"
    /\ flagRead[i] = "false"
    /\ pc[i] = "resolved"
    /\ ownedGames[j].kind = "throw"
    /\ flagRead[j] = "true"
    /\ pc[j] = "rejected"

(***************************************************************************)
(* C11. Every identity request (ResolveVanityURL, GetPlayerSummaries) is   *)
(* immediately preceded in the log by a Loading event carrying             *)
(* meta {input, type}, of type SteamIDRetrieval for ResolveVanityURL and   *)
(* SteamIDValidation for GetPlayerSummaries, and there is exactly one      *)
(* Loading event per identity request, whatever the value of the flag.     *)
(***************************************************************************)
IdentityApis == {"ResolveVanityURL", "GetPlayerSummaries"}

LoadingTypeOf(api) ==
  IF api = "ResolveVanityURL" THEN "SteamIDRetrieval" ELSE "SteamIDValidation"

IsIdentityGet(e) == e.op = "get" /\ e.api \in IdentityApis

IsLoading(e) == e.op = "emit" /\ e.state = "Loading"

C11_LoadingBeforeIdentityCall ==
  \A i \in Invocations :
    /\ \A k \in 1..Len(log[i]) :
         IsIdentityGet(log[i][k]) =>
           /\ k > 1
           /\ log[i][k - 1] =
                Emit("Loading", LoadingTypeOf(log[i][k].api),
                     [meta |-> [input |-> log[i][k].key,
                                type |-> idType[i]]])
    /\ Len(SelectSeq(log[i], IsLoading)) = Len(SelectSeq(log[i], IsIdentityGet))

C11_Witness ==
  \E i, j \in Invocations :
    /\ GetsOf(i, "ResolveVanityURL") # << >>
    /\ GetsOf(j, "GetPlayerSummaries") # << >>
    /\ flagRead[i] = "true"
    /\ flagRead[j] = "false"

(***************************************************************************)
(* C12. For every URL-shaped input whose host is not the community domain, *)
(* or whose first path segment is neither "id" nor "profiles", start is a  *)
(* silent no-op: no request, no event, no error, no rejection.             *)
(***************************************************************************)
UnrecognisedUrls ==
  { t \in UrlShaped :
      /\ ParseURL(t).ok
      /\ \/ ~Includes(ParseURL(t).hostname, STEAM)
         \/ At(Route(t), 0) \notin {ID, PROFILES} }

C12_UnrecognisedUrlSilent ==
  \A i \in Invocations :
    term[i] \in UnrecognisedUrls =>
      /\ log[i] = << >>
      /\ steamID[i].kind # "throw"
      /\ pc[i] # "rejected"

(***************************************************************************)
(* C13. The flag decides nothing but the Success and Failure events of     *)
(* type SteamIDRetrieval: two invocations with the same term that have     *)
(* received the same responses, under whatever values the flag had when    *)
(* their handlers ran, stand at the same place, have settled getSteamID    *)
(* the same way, and have logs that are equal once those events are left   *)
(* out (same requests in the same order, same SteamLibraryFetch events,    *)
(* same resolution or rejection).                                          *)
(***************************************************************************)
IsGatedEvent(e) ==
  e.op = "emit" /\ e.type = "SteamIDRetrieval"
    /\ e.state \in {"Success", "Failure"}

\* the log of invocation i without the events the flag gates
Ungated(i) == SelectSeq(log[i], LAMBDA e : ~IsGatedEvent(e))

\* i and j were started with the same term and got the same responses
SameRun(i, j) ==
  /\ term[i] # undefined
  /\ term[i] = term[j]
  /\ response[i] = response[j]
  /\ ownedGames[i] = ownedGames[j]

C13_FlagOnlyGatesIdentityEvents ==
  \A i, j \in Invocations :
    SameRun(i, j) =>
      /\ pc[i] = pc[j]
      /\ steamID[i] = steamID[j]
      /\ Ungated(i) = Ungated(j)

C13_Witness ==
  \E i, j \in Invocations :
    /\ SameRun(i, j)
    /\ flagRead[i] = "true"
    /\ flagRead[j] = "false"
    /\ response[i].kind = "ok"
    /\ pc[i] = "resolved"
    /\ log[i] # log[j]

(***************************************************************************)
(* C14. Whatever the other invocations do and however the completions of   *)
(* their requests interleave, each invocation has sent the requests,       *)
(* emitted the events (in the same order) and settled the way it does when *)
(* it runs alone with the same term, the same responses and the same value *)
(* of the flag: its log and its place are a function of these alone.       *)
(***************************************************************************)
\* what a start() that runs alone has logged, given its term, the answer to
\* its identity request (kind "none" while there is none), the branch its
\* handler took on the flag, and how its getOwnedGames settled
AloneFirst(t) ==
  IF begin[t].kind # "await" THEN << >>
  ELSE IF begin[t].fn = "isValidID"
       THEN isValidID(begin[t].input, begin[t].type)
       ELSE getSteamIDFromName(begin[t].input, begin[t].type)

AloneOutcome(t, res) ==
  IF begin[t].kind # "await" THEN begin[t]
  ELSE IF res.kind = "none" THEN Pending
  ELSE getSteamIDResume(t, begin[t].type, res)

AloneLog(t, res, flag, games) ==
  AloneFirst(t)
    \o (IF AloneOutcome(t, res) = Pending THEN << >>
        ELSE AfterSteamID(t, AloneOutcome(t, res), flag))
    \o (IF games = Pending THEN << >>
        ELSE IF games.kind = "return" THEN OnGames(games.value)
        ELSE OnGamesError(games.error))

AlonePc(t, res, flag, games) ==
  IF AloneOutcome(t, res) = Pending THEN "getSteamID"
  ELSE PcAfter(AloneLog(t, res, flag, games))

C14_InvocationsIndependent ==
  \A i \in Invocations :
    term[i] # undefined =>
      /\ log[i] = AloneLog(term[i], response[i], flagRead[i], ownedGames[i])
      /\ pc[i] = AlonePc(term[i], response[i], flagRead[i], ownedGames[i])

\* invocation j was started after i and has run to its resolution while i
\* still waits for the answer to its identity request
C14_Witness ==
  \E i, j \in Invocations :
    /\ i < j
    /\ term[i] # term[j]
    /\ pc[i] = "getSteamID"
    /\ pc[j] = "resolved"
    /\ response[j].kind = "ok"
    /\ flagRead[j] = "true"

(***************************************************************************)
(* C15. An invocation sends at most one identity request and at most one   *)
(* GetOwnedGames request; at most one of its requests is unanswered at any *)
(* time; the GetOwnedGames request follows the answer to the identity      *)
(* request; and no request follows an error.                               *)
(***************************************************************************)
\* the requests of invocation i that have no answer yet
InFlight(i) ==
  (IF SelectSeq(log[i], IsIdentityGet) # << >> /\ response[i].kind = "none"
   THEN 1 ELSE 0)
  + (IF GetsOf(i, "GetOwnedGames") # << >> /\ ownedGames[i] = Pending
     THEN Len(GetsOf(i, "GetOwnedGames")) ELSE 0)

C15_OneCallAtATime ==
  \A i \in Invocations :
    /\ Len(SelectSeq(log[i], IsIdentityGet)) <= 1
    /\ Len(GetsOf(i, "GetOwnedGames")) <= 1
    /\ InFlight(i) <= 1
    /\ (SelectSeq(log[i], IsIdentityGet) # << >>
          /\ GetsOf(i, "GetOwnedGames") # << >>) =>
         /\ response[i].kind # "none"
         /\ IsIdentityGet(log[i][2])
         /\ \A k \in 1..2 : ~(log[i][k].op = "get"
                               /\ log[i][k].api = "GetOwnedGames")
    /\ steamID[i].kind = "throw" =>
         /\ GetsOf(i, "GetOwnedGames") = << >>
         /\ log[i][Len(log[i])] = Settle("reject")
    /\ ownedGames[i].kind = "throw" => log[i][Len(log[i])] = Settle("reject")

C15_Witness ==
  \E i, j \in Invocations :
    /\ Len(SelectSeq(log[i], IsIdentityGet)) = 1
    /\ Len(GetsOf(i, "GetOwnedGames")) = 1
    /\ ownedGames[i].kind = "throw"
    /\ steamID[j].kind = "throw"
    /\ response[j].kind # "none"

(***************************************************************************)
(* C16. When every request that was sent is answered, every invocation of  *)
(* start eventually settles; it settles once, by resolve or by reject and  *)
(* never both; and once it has settled its place and its log never change  *)
(* again (no further event, request or settlement).                        *)
(***************************************************************************)
Settled(i) == pc[i] \in {"resolved", "rejected"}

IsSettle(e) == e.op \in {"resolve", "reject"}

C16_EventuallySettlesOnce ==
  /\ \A i \in Invocations : (pc[i] # "idle") ~> Settled(i)
  /\ [][\A i \in Invocations :
          Settled(i) => (pc'[i] = pc[i] /\ log'[i] = log[i])]_vars
  /\ [](\A i \in Invocations :
          /\ Len(SelectSeq(log[i], IsSettle)) <= 1
          /\ Settled(i) <=> Len(SelectSeq(log[i], IsSettle)) = 1
          /\ Settled(i) =>
               log[i][Len(log[i])].op =
                 (IF pc[i] = "resolved" THEN "resolve" ELSE "reject"))

C16_Witness ==
  \E i \in Invocations :
    /\ response[i].kind = "ok"
    /\ ownedGames[i].kind = "throw"
    /\ pc[i] = "rejected"
    /\ Len(log[i]) >= 5

(***************************************************************************)
(* C17. Every error carried by a Failure event of type SteamIDRetrieval,   *)
(* and every error getSteamID fails with, is one of the four typed errors, *)
(* and it is the one of the category that was resolved: ID64, Nickname,    *)
(* ProfileURL, ProfilePermalink.                                           *)
(***************************************************************************)
ErrorOfCategory(type) ==
  IF type = "ID64" THEN "InvalidSteamID64Error"
  ELSE IF type = "Nickname" THEN "InvalidNicknameError"
  ELSE IF type = "ProfileURL" THEN "InvalidProfileURLError"
  ELSE IF type = "ProfilePermalink" THEN "InvalidPermalinkError"
  ELSE "none"

C17_FourErrorKinds ==
  \A i \in Invocations :
    /\ steamID[i].kind = "throw" =>
         /\ steamID[i].error.name \in TypedErrors
         /\ steamID[i].error.name = ErrorOfCategory(idType[i])
    /\ \A k \in 1..Len(log[i]) :
         (IsGatedEvent(log[i][k]) /\ log[i][k].state = "Failure") =>
           /\ log[i][k].details.error.name \in TypedErrors
           /\ log[i][k].details.error.name = ErrorOfCategory(idType[i])

(***************************************************************************)
(* C18. The flag is read when the identity stage completes, not when start *)
(* is called: in the step in which getSteamID of an invocation settles,    *)
(* the invocation emits its Success or Failure event of type               *)
(* SteamIDRetrieval exactly when the flag is true in that step, whatever   *)
(* its value was before; and the flag of that step gates every invocation  *)
(* that is then still in its identity stage.                               *)
(***************************************************************************)
GatedEvents(i) == SelectSeq(log[i], IsGatedEvent)

C18_FlagReadAtCompletion ==
  [][\A i \in Invocations :
       (pc[i] = "getSteamID" /\ pc'[i] # "getSteamID") =>
         /\ Len(GatedEvents(i)') = (IF searchActivated = "true" THEN 1 ELSE 0)
         /\ flagRead'[i] = (IF searchActivated = "true" THEN "true" ELSE "false")
         /\ \A j \in Invocations :
              pc'[j] = "getSteamID" => GatedEvents(j)' = << >>]_vars

\* j completed its identity stage under a true flag while i, started before
\* it, was waiting; the flag has since been cleared and i is still waiting
C18_Witness ==
  \E i, j \in Invocations :
    /\ i < j
    /\ pc[i] = "getSteamID"
    /\ response[j].kind # "none"
    /\ flagRead[j] = "true"
    /\ GatedEvents(j) # << >>
    /\ searchActivated = "false"

(***************************************************************************)
(* C19. When the identity request fails in transport, or its answer lacks  *)
(* the expected fields, start rejects, sends no GetOwnedGames request and  *)
(* emits no SteamLibraryFetch event; and it emits one Failure event of     *)
(* type SteamIDRetrieval, carrying the untyped error and the term, if and  *)
(* only if the flag is true when the handler runs.                         *)
(***************************************************************************)
UntypedFailure(i) == response[i].kind \in {"error", "malformed"}

C19_UntypedIdentityFailure ==
  \A i \in Invocations :
    UntypedFailure(i) =>
      /\ steamID[i].kind = "throw"
      /\ steamID[i].error.name \notin TypedErrors
      /\ pc[i] = "rejected"
      /\ log[i][Len(log[i])] = Settle("reject")
      /\ GetsOf(i, "GetOwnedGames") = << >>
      /\ EmitsOf(i, AllStates, "SteamLibraryFetch") = << >>
      /\ GatedEvents(i) =
           (IF flagRead[i] = "true"
            THEN << Emit("Failure", "SteamIDRetrieval",
                         [error |-> steamID[i].error,
                          meta |-> [input |-> term[i]]]) >>
            ELSE << >>)

C19_Witness ==
  \E i, j \in Invocations :
    /\ response[i].kind = "error"
    /\ flagRead[i] = "true"
    /\ response[j].kind = "malformed"
    /\ flagRead[j] = "false"

(***************************************************************************)
(* C20. The constructor leaves the flag unset, and an unset flag behaves   *)
(* as false: as long as the flag has never been set, no invocation has     *)
(* emitted a Success or Failure event of type SteamIDRetrieval, while the  *)
(* Loading events and the SteamLibraryFetch events are emitted as usual.   *)
(***************************************************************************)
C20_UnsetFlagIsFalse ==
  searchActivated = "undefined" =>
    \A i \in Invocations :
      /\ GatedEvents(i) = << >>
      /\ flagRead[i] # "true"
      /\ SelectSeq(log[i], IsIdentityGet) # << >> =>
           Len(SelectSeq(log[i], IsLoading)) = 1
      /\ ownedGames[i] # Pending =>
           Len(EmitsOf(i, {"Success", "Failure"}, "SteamLibraryFetch")) = 1

C20_Witness ==
  /\ searchActivated = "undefined"
  /\ \E i, j \in Invocations :
       /\ steamID[i].kind = "return"
       /\ steamID[i].value # undefined
       /\ pc[i] = "resolved"
       /\ steamID[j].kind = "throw"
       /\ response[j].kind = "ok"

====
